---- MODULE Spec2Model ----
(***************************************************************************)
(* Banggood scrape -> clean -> load pipeline.                              *)
(*                                                                         *)
(*   Spec       main_pipeline.py driving scraper.main (category loop,      *)
(*              scrape_page with its waits and retries, the session's      *)
(*              try/finally), then clean_data and load_data_to_sql.        *)
(*   SpecClean  cleaner.clean_data step by step on bounded raw tables      *)
(*              whose numeric cells vary.                                  *)
(*   SpecNames  the same steps on raw tables whose ProductName cells vary. *)
(*   SpecImpute the same steps on raw tables of three categories whose     *)
(*              prices vary (the price imputation).                        *)
(*   SpecText   scraper.clean_text on bounded texts.                       *)
(*   SpecReview scraper.extract_review_count on bounded review texts.      *)
(*                                                                         *)
(* Decimal numbers are exact: a value x is held as the integer x * Unit.   *)
(***************************************************************************)
EXTENDS Integers, Sequences, FiniteSets, TLC

\* ------------------------------------------------------------------ bounds
NumCategories == 2
MaxRows == 2
MaxImputeRows == 5
MaxText == 4

\* ------------------------------------------------------- program constants
PAGES_PER_CATEGORY == 5
MAX_RETRIES_PER_PAGE == 3
PageCap == 50

VARIABLES
    pc,                 \* control position of the running stage
    session,            \* "none" | "live" | "quit" : the WebDriver
    created,            \* number of get_driver() calls that returned
    quits,              \* number of driver.quit() calls
    strayUse,           \* a driver call was made while the session was not live
    cat,                \* index of the category being crawled (0 before the loop)
    pages_to_scrape,
    page,
    retry_count,
    navCount,           \* driver.get calls of the current top-level scrape_page
    outcome,            \* how the current scrape_page call returned
    products,           \* value returned by scrape_page
    catLog,             \* pages of the current category that returned: <<page, products>>
    category_products,
    all_products,
    raising,            \* an exception is propagating out of the category loop
    mainResult,         \* "none" | "returned" | "raised" : scraper.main
    rawWritten,         \* data/raw.csv written by this run
    rawFile,            \* its records
    cleanStarted,       \* clean_data has been entered
    cleanedWritten,     \* data/cleaned_products.csv written by this run
    cleanedRows,        \* len(df_cleaned)
    loadInvoked,        \* load_data_to_sql has been entered
    exitStatus,         \* "running" | 0 | 1
    raw,                \* clean_data: the table read by pd.read_csv
    df,                 \* clean_data: the working table
    cpc,                \* clean_data: control position
    out,                \* clean_data: the table written to output_path
    max_pages,          \* main: what get_max_pages returned for the category
    rawExists,          \* data/raw.csv is on disk
    cleanedExists,      \* data/cleaned_products.csv is on disk
    waits,              \* scrape_page: the waits of the current attempt, in order
    settled,            \* scrape_page: the sleep after a successful wait is over
    pageBlocks,         \* scrape_page: the product blocks the parse walked
    text,               \* argument of the text function under study
    result,             \* its return value
    fpc                 \* "idle" | "call" | "done"

pipeVars == <<pc, session, created, quits, strayUse, cat, pages_to_scrape, page,
              retry_count, navCount, outcome, products, catLog, category_products,
              all_products, raising, mainResult, rawWritten, rawFile, cleanStarted,
              cleanedWritten, cleanedRows, loadInvoked, exitStatus>>
cleanVars == <<raw, df, cpc, out>>
auxVars == <<max_pages, rawExists, cleanedExists, waits, settled, pageBlocks>>
fnVars == <<text, result, fpc>>
vars == <<pipeVars, cleanVars, auxVars, fnVars>>

\* ----------------------------------------------------------------- helpers
Min(a, b) == IF a <= b THEN a ELSE b
Max(a, b) == IF a >= b THEN a ELSE b
SetMax(S) == CHOOSE x \in S : \A y \in S : y <= x

RECURSIVE Flatten(_)
Flatten(ss) == IF ss = << >> THEN << >> ELSE Head(ss) \o Flatten(Tail(ss))

\* ------------------------------------------------- scraper.py: configuration
\* categories (scraper.py:21-27), in dict order; the model crawls the first
\* NumCategories of them.
Categories == 1..NumCategories

\* main(pages_per_category=None): main_pipeline calls scrape_main() with no
\* argument, so the default applies.
pages_per_category == PAGES_PER_CATEGORY

\* line 344: pages_to_scrape = min(pages_per_category, max_pages)
PagesToScrape_IgnoresRequest(requested, discovered) == discovered
PagesToScrape(requested, discovered) == Min(requested, discovered)

\* ------------------------------------------------ scraper.py: get_max_pages
\* A pagination link: the page token its href holds after "page=" and the
\* first integer of its text (-1 when the regex does not match).
Links == [href : {-1, 2, 60}, text : {-1, 7}]

\* re.search on href first, the text only when href did not match; a link
\* with no match contributes nothing.
LinkPageNums(links) ==
    {IF l.href # -1 THEN l.href ELSE l.text :
        l \in {k \in links : k.href # -1 \/ k.text # -1}}

\* found: a pagination container was located; links: its <a href> elements.
get_max_pages_Uncapped(found, links) ==
    IF found
    THEN SetMax({1} \cup LinkPageNums(links))
    ELSE PAGES_PER_CATEGORY
get_max_pages(found, links) ==
    IF found
    THEN Min(SetMax({1} \cup LinkPageNums(links)), PageCap)
    ELSE PAGES_PER_CATEGORY

\* -------------------------------------------------- scraper.py: scrape_page
\* What the parse of one rendered page meets, block by block:
\*   "ok"      a block with a name; a record is appended
\*   "noname"  no resolvable name; continue
\*   "raises"  extraction raised; swallowed by the inner except, continue
PageContents == {<< >>, <<"noname", "raises">>, <<"ok", "raises", "ok">>}

Record(c, p, i) == [Category |-> c, page |-> p, block |-> i]

RECURSIVE ExtractFrom(_, _, _, _)
ExtractFrom(c, p, blocks, i) ==
    IF i > Len(blocks) THEN << >>
    ELSE (IF blocks[i] = "ok" THEN <<Record(c, p, i)>> ELSE << >>)
         \o ExtractFrom(c, p, blocks, i + 1)

\* lines 233-312: the inner try/except of the block loop
ExtractProducts_DropsPageOnError(c, p, blocks) ==
    IF \E i \in 1..Len(blocks) : blocks[i] = "raises" THEN << >>
    ELSE ExtractFrom(c, p, blocks, 1)
ExtractProducts(c, p, blocks) == ExtractFrom(c, p, blocks, 1)

\* lines 194-213: a wait that found its element is followed by the sleep of
\* its own try body; one that did not, by its except clause.
AfterWait_SkipsSettle(found, fallback) == IF found THEN "read" ELSE fallback
AfterWait(found, fallback) == IF found THEN "settle" ELSE fallback

Waited(w, found) == [w |-> w, ok |-> found]

\* lines 184 and 352: the category loop calls scrape_page without a
\* retry_count, so the parameter takes its default whatever an earlier call
\* ended with
InitialRetryCount_CarriedOver(previous) == previous
InitialRetryCount(previous) == 0

\* line 217: the recursive call passes retry_count + 1
NextRetryCount_Same(rc) == rc
NextRetryCount(rc) == rc + 1

\* lines 191, 314-317: driver.get is outside the inner try blocks; what it
\* raises is caught by the outer handler, which prints and falls through to
\* the return, without looking at retry_count
AfterNavError_Retries(rc) ==
    IF rc < MAX_RETRIES_PER_PAGE THEN "retry_sleep" ELSE "fetched"
AfterNavError(rc) == "fetched"

\* line 214: the retry test after the third wait timed out
MayRetry_TooMany(rc) == rc <= MAX_RETRIES_PER_PAGE
MayRetry(rc) == rc < MAX_RETRIES_PER_PAGE

\* line 354: the early-stop test of the category loop
ShouldStop_Never(prods, p) == FALSE
ShouldStop_AnyPage(prods, p) == Len(prods) = 0
ShouldStop(prods, p) == Len(prods) = 0 /\ p > 1

\* lines 359-363: after the extend, time.sleep(2) unless this was the last
\* page of the range
AfterExtend_NoDelay(p, n) == "next_page"
AfterExtend(p, n) == IF p < n THEN "page_delay" ELSE "next_page"

\* lines 335/368-370: try ... finally: driver.quit() runs whether or not an
\* exception is propagating.
QuitsSession_OnlyOnSuccess(exc) == ~exc
QuitsSession(exc) == TRUE

\* lines 368-373: after the finally clause a propagating exception leaves
\* main; otherwise main goes on to build and write the DataFrame
AfterFinally_AlwaysWrites(exc) == "write_raw"
AfterFinally(exc) == IF exc THEN "step1_except" ELSE "write_raw"

\* main_pipeline.py:35: df_raw is None or len(df_raw) == 0
ScrapeIsEmpty_Never(n) == FALSE
ScrapeIsEmpty(n) == n = 0

\* main_pipeline.py:45-49: the except clause of step 1 ends in sys.exit(1).
AfterScrapeError_FallsThrough == "step2"
AfterScrapeError == "exited"

FetchPcs == {"nav", "wait_a", "wait_b", "wait_c", "settle", "read", "retry_sleep"}
LoopPcs == FetchPcs \cup {"next_cat", "get_max_pages", "next_page", "fetched",
                          "page_delay", "cat_end"}
ScrapePcs == LoopPcs \cup {"step1", "get_driver", "finally", "write_raw",
                           "step1_check", "step1_except"}
CleanPcs == {"step2", "clean_run", "step2_check", "step2_except"}
LoadPcs == {"step3", "load_run", "step3_except"}

\* ---------------------------------------------------------------- Init
CleanIdle == raw = << >> /\ df = << >> /\ cpc = "idle" /\ out = << >>
AuxIdle ==
    /\ max_pages = 0 /\ rawExists = FALSE /\ cleanedExists = FALSE
    /\ waits = << >> /\ settled = FALSE /\ pageBlocks = << >>
FnIdle == text = << >> /\ result = << >> /\ fpc = "idle"

Init ==
    /\ pc = "step1"
    /\ session = "none" /\ created = 0 /\ quits = 0 /\ strayUse = FALSE
    /\ cat = 0 /\ pages_to_scrape = 0 /\ page = 0
    /\ retry_count = 0 /\ navCount = 0 /\ outcome = "none"
    /\ products = << >> /\ catLog = << >>
    /\ category_products = << >> /\ all_products = << >>
    /\ raising = FALSE /\ mainResult = "none"
    /\ rawWritten = FALSE /\ rawFile = << >>
    /\ cleanStarted = FALSE /\ cleanedWritten = FALSE /\ cleanedRows = 0
    /\ loadInvoked = FALSE /\ exitStatus = "running"
    /\ CleanIdle /\ AuxIdle /\ FnIdle

\* ------------------------------------------------------ scraper.py: main
\* main_pipeline.py:33 calls scrape_main(); main line 329.
Step1CallScraper ==
    /\ pc = "step1"
    /\ pc' = "get_driver"
    /\ all_products' = << >>
    /\ UNCHANGED <<session, created, quits, strayUse, cat, pages_to_scrape, page,
                   retry_count, navCount, outcome, products, catLog,
                   category_products, raising, mainResult, rawWritten, rawFile,
                   cleanStarted, cleanedWritten, cleanedRows, loadInvoked,
                   exitStatus, cleanVars, auxVars, fnVars>>

\* line 333: driver = get_driver()
GetDriver ==
    /\ pc = "get_driver"
    /\ session' = "live" /\ created' = created + 1
    /\ pc' = "next_cat"
    /\ UNCHANGED <<quits, strayUse, cat, pages_to_scrape, page, retry_count,
                   navCount, outcome, products, catLog, category_products,
                   all_products, raising, mainResult, rawWritten, rawFile,
                   cleanStarted, cleanedWritten, cleanedRows, loadInvoked,
                   exitStatus, cleanVars, auxVars, fnVars>>

\* line 333 raising (no Chrome, no driver download): outside main's try, so
\* nothing is quit and main raises into main_pipeline's except.
GetDriverRaises ==
    /\ pc = "get_driver"
    /\ mainResult' = "raised"
    /\ pc' = "step1_except"
    /\ UNCHANGED <<session, created, quits, strayUse, cat, pages_to_scrape, page,
                   retry_count, navCount, outcome, products, catLog,
                   category_products, all_products, raising, rawWritten, rawFile,
                   cleanStarted, cleanedWritten, cleanedRows, loadInvoked,
                   exitStatus, cleanVars, auxVars, fnVars>>

\* line 337: the for loop over categories.items(); line 339.
NextCategory ==
    /\ pc = "next_cat"
    /\ IF cat < NumCategories
       THEN /\ cat' = cat + 1
            /\ category_products' = << >>
            /\ catLog' = << >>
            /\ pc' = "get_max_pages"
       ELSE /\ pc' = "finally"
            /\ UNCHANGED <<cat, category_products, catLog>>
    /\ UNCHANGED <<session, created, quits, strayUse, pages_to_scrape, page,
                   retry_count, navCount, outcome, products, all_products, raising,
                   mainResult, rawWritten, rawFile, cleanStarted, cleanedWritten,
                   cleanedRows, loadInvoked, exitStatus, cleanVars, auxVars, fnVars>>

\* lines 342-345 with get_max_pages (94-133) returning normally.
DiscoverPages ==
    /\ pc = "get_max_pages"
    /\ \E found \in BOOLEAN, links \in SUBSET Links :
          /\ max_pages' = get_max_pages(found, links)
          /\ pages_to_scrape' =
                PagesToScrape(pages_per_category, get_max_pages(found, links))
    /\ strayUse' = (strayUse \/ session # "live")
    /\ page' = 0
    /\ pc' = "next_page"
    /\ UNCHANGED <<session, created, quits, cat, retry_count, navCount, outcome,
                   products, catLog, category_products, all_products, raising,
                   mainResult, rawWritten, rawFile, cleanStarted, cleanedWritten,
                   cleanedRows, loadInvoked, exitStatus, cleanVars, rawExists,
                   cleanedExists, waits, settled, pageBlocks, fnVars>>

\* get_max_pages lines 132-133: anything raised inside (driver.get, parsing)
\* is swallowed and the default is returned; main lines 344-345 go on.
DiscoverPagesFails ==
    /\ pc = "get_max_pages"
    /\ max_pages' = PAGES_PER_CATEGORY
    /\ pages_to_scrape' = PagesToScrape(pages_per_category, PAGES_PER_CATEGORY)
    /\ strayUse' = (strayUse \/ session # "live")
    /\ page' = 0
    /\ pc' = "next_page"
    /\ UNCHANGED <<session, created, quits, cat, retry_count, navCount, outcome,
                   products, catLog, category_products, all_products, raising,
                   mainResult, rawWritten, rawFile, cleanStarted, cleanedWritten,
                   cleanedRows, loadInvoked, exitStatus, cleanVars, rawExists,
                   cleanedExists, waits, settled, pageBlocks, fnVars>>

\* line 351: for page in range(1, pages_to_scrape + 1); line 352 enters
\* scrape_page with retry_count = 0 (lines 184-187).
NextPage ==
    /\ pc = "next_page"
    /\ IF page < pages_to_scrape
       THEN /\ page' = page + 1
            /\ retry_count' = InitialRetryCount(retry_count)
            /\ navCount' = 0 /\ outcome' = "none"
            /\ products' = << >>
            /\ pc' = "nav"
       ELSE /\ pc' = "cat_end"
            /\ UNCHANGED <<page, retry_count, navCount, outcome, products>>
    /\ UNCHANGED <<session, created, quits, strayUse, cat, pages_to_scrape, catLog,
                   category_products, all_products, raising, mainResult, rawWritten,
                   rawFile, cleanStarted, cleanedWritten, cleanedRows, loadInvoked,
                   exitStatus, cleanVars, auxVars, fnVars>>

\* ------------------------------------------- scraper.py: scrape_page steps
\* line 191: driver.get(page_url) returns.
Navigate ==
    /\ pc = "nav"
    /\ navCount' = navCount + 1
    /\ strayUse' = (strayUse \/ session # "live")
    /\ pc' = "wait_a"
    /\ waits' = << >> /\ settled' = FALSE
    /\ UNCHANGED <<session, created, quits, cat, pages_to_scrape, page, retry_count,
                   outcome, products, catLog, category_products, all_products,
                   raising, mainResult, rawWritten, rawFile, cleanStarted,
                   cleanedWritten, cleanedRows, loadInvoked, exitStatus, cleanVars,
                   max_pages, rawExists, cleanedExists, pageBlocks, fnVars>>

\* line 191 raising: caught by the outer except (314-315); line 317 returns
\* the still empty products list, whatever retry_count is.
NavigateRaises ==
    /\ pc = "nav"
    /\ navCount' = navCount + 1
    /\ strayUse' = (strayUse \/ session # "live")
    /\ products' = << >>
    /\ outcome' = "nav_error"
    /\ catLog' = Append(catLog, <<page, << >> >>)
    /\ pc' = AfterNavError(retry_count)
    /\ UNCHANGED <<session, created, quits, cat, pages_to_scrape, page, retry_count,
                   category_products, all_products, raising, mainResult, rawWritten,
                   rawFile, cleanStarted, cleanedWritten, cleanedRows, loadInvoked,
                   exitStatus, cleanVars, auxVars, fnVars>>

\* lines 194-197: wait for span.price[oriprice]; found -> sleep(3) at 198,
\* timed out -> the except at 199.
WaitPricedProduct ==
    /\ pc = "wait_a"
    /\ \E found \in BOOLEAN :
          /\ waits' = Append(waits, Waited("a", found))
          /\ pc' = AfterWait(found, "wait_b")
    /\ UNCHANGED <<session, created, quits, strayUse, cat, pages_to_scrape, page,
                   retry_count, navCount, outcome, products, catLog,
                   category_products, all_products, raising, mainResult, rawWritten,
                   rawFile, cleanStarted, cleanedWritten, cleanedRows, loadInvoked,
                   exitStatus, cleanVars, max_pages, rawExists, cleanedExists,
                   settled, pageBlocks, fnVars>>

\* lines 201-205: wait for span.price.
WaitAnyPrice ==
    /\ pc = "wait_b"
    /\ \E found \in BOOLEAN :
          /\ waits' = Append(waits, Waited("b", found))
          /\ pc' = AfterWait(found, "wait_c")
    /\ UNCHANGED <<session, created, quits, strayUse, cat, pages_to_scrape, page,
                   retry_count, navCount, outcome, products, catLog,
                   category_products, all_products, raising, mainResult, rawWritten,
                   rawFile, cleanStarted, cleanedWritten, cleanedRows, loadInvoked,
                   exitStatus, cleanVars, max_pages, rawExists, cleanedExists,
                   settled, pageBlocks, fnVars>>

\* lines 208-212: wait for div.p-wrap, found.
WaitProductBlock ==
    /\ pc = "wait_c"
    /\ waits' = Append(waits, Waited("c", TRUE))
    /\ pc' = AfterWait(TRUE, "retry_sleep")
    /\ UNCHANGED <<session, created, quits, strayUse, cat, pages_to_scrape, page,
                   retry_count, navCount, outcome, products, catLog,
                   category_products, all_products, raising, mainResult, rawWritten,
                   rawFile, cleanStarted, cleanedWritten, cleanedRows, loadInvoked,
                   exitStatus, cleanVars, max_pages, rawExists, cleanedExists,
                   settled, pageBlocks, fnVars>>

\* lines 213-220: the third wait timed out too: retry, or give the page up
\* and return the empty products list.
WaitProductBlockTimesOut ==
    /\ pc = "wait_c"
    /\ IF MayRetry(retry_count)
       THEN /\ waits' = Append(waits, Waited("c", FALSE))
            /\ pc' = "retry_sleep"
            /\ UNCHANGED <<products, outcome, catLog>>
       ELSE /\ products' = << >>
            /\ outcome' = "degraded"
            /\ catLog' = Append(catLog, <<page, << >> >>)
            /\ waits' = << >>
            /\ pc' = "fetched"
    /\ UNCHANGED <<session, created, quits, strayUse, cat, pages_to_scrape, page,
                   retry_count, navCount, category_products, all_products, raising,
                   mainResult, rawWritten, rawFile, cleanStarted, cleanedWritten,
                   cleanedRows, loadInvoked, exitStatus, cleanVars, max_pages,
                   rawExists, cleanedExists, settled, pageBlocks, fnVars>>

\* lines 216-217: sleep(2), then the recursive call with retry_count + 1;
\* its return value is returned unchanged by every enclosing call.
RetryPage ==
    /\ pc = "retry_sleep"
    /\ retry_count' = NextRetryCount(retry_count)
    /\ pc' = "nav"
    /\ UNCHANGED <<session, created, quits, strayUse, cat, pages_to_scrape, page,
                   navCount, outcome, products, catLog, category_products,
                   all_products, raising, mainResult, rawWritten, rawFile,
                   cleanStarted, cleanedWritten, cleanedRows, loadInvoked,
                   exitStatus, cleanVars, auxVars, fnVars>>

\* lines 198/205/212: time.sleep(3) after the wait that succeeded.
Settle ==
    /\ pc = "settle"
    /\ pc' = "read"
    /\ settled' = TRUE
    /\ UNCHANGED <<session, created, quits, strayUse, cat, pages_to_scrape, page,
                   retry_count, navCount, outcome, products, catLog,
                   category_products, all_products, raising, mainResult, rawWritten,
                   rawFile, cleanStarted, cleanedWritten, cleanedRows, loadInvoked,
                   exitStatus, cleanVars, max_pages, rawExists, cleanedExists, waits,
                   pageBlocks, fnVars>>

\* lines 223-317: read page_source, parse, walk the product blocks, return.
ReadPage ==
    /\ pc = "read"
    /\ \E blocks \in PageContents :
          /\ pageBlocks' = blocks
          /\ products' = ExtractProducts(cat, page, blocks)
          /\ catLog' = Append(catLog, <<page, ExtractProducts(cat, page, blocks)>>)
    /\ strayUse' = (strayUse \/ session # "live")
    /\ outcome' = "records"
    /\ pc' = "fetched"
    /\ waits' = << >> /\ settled' = FALSE
    /\ UNCHANGED <<session, created, quits, cat, pages_to_scrape, page, retry_count,
                   navCount, category_products, all_products, raising, mainResult,
                   rawWritten, rawFile, cleanStarted, cleanedWritten, cleanedRows,
                   loadInvoked, exitStatus, cleanVars, max_pages, rawExists,
                   cleanedExists, fnVars>>

\* lines 223-231 raising before the block loop (page_source, the parser):
\* caught at 314, the empty list is returned at 317.
ReadPageRaises ==
    /\ pc = "read"
    /\ products' = << >>
    /\ catLog' = Append(catLog, <<page, << >> >>)
    /\ strayUse' = (strayUse \/ session # "live")
    /\ outcome' = "read_error"
    /\ pc' = "fetched"
    /\ waits' = << >> /\ settled' = FALSE
    /\ UNCHANGED <<session, created, quits, cat, pages_to_scrape, page, retry_count,
                   navCount, category_products, all_products, raising, mainResult,
                   rawWritten, rawFile, cleanStarted, cleanedWritten, cleanedRows,
                   loadInvoked, exitStatus, cleanVars, max_pages, rawExists,
                   cleanedExists, pageBlocks, fnVars>>

\* ------------------------------------------- scraper.py: main, continued
\* lines 354-363: early stop, or extend and (unless it was the last page)
\* go to the inter-page delay.
PageFetched ==
    /\ pc = "fetched"
    /\ IF ShouldStop(products, page)
       THEN /\ pc' = "cat_end"
            /\ UNCHANGED category_products
       ELSE /\ category_products' = category_products \o products
            /\ pc' = AfterExtend(page, pages_to_scrape)
    /\ pageBlocks' = << >>
    /\ UNCHANGED <<session, created, quits, strayUse, cat, pages_to_scrape, page,
                   retry_count, navCount, outcome, products, catLog, all_products,
                   raising, mainResult, rawWritten, rawFile, cleanStarted,
                   cleanedWritten, cleanedRows, loadInvoked, exitStatus, cleanVars,
                   max_pages, rawExists, cleanedExists, waits, settled, fnVars>>

\* line 363: time.sleep(2)
InterPageDelay ==
    /\ pc = "page_delay"
    /\ pc' = "next_page"
    /\ UNCHANGED <<session, created, quits, strayUse, cat, pages_to_scrape, page,
                   retry_count, navCount, outcome, products, catLog,
                   category_products, all_products, raising, mainResult, rawWritten,
                   rawFile, cleanStarted, cleanedWritten, cleanedRows, loadInvoked,
                   exitStatus, cleanVars, auxVars, fnVars>>

\* line 365: all_products.extend(category_products)
CategoryDone ==
    /\ pc = "cat_end"
    /\ all_products' = all_products \o category_products
    /\ pc' = "next_cat"
    /\ UNCHANGED <<session, created, quits, strayUse, cat, pages_to_scrape, page,
                   retry_count, navCount, outcome, products, catLog,
                   category_products, raising, mainResult, rawWritten, rawFile,
                   cleanStarted, cleanedWritten, cleanedRows, loadInvoked,
                   exitStatus, cleanVars, auxVars, fnVars>>

\* An exception that nothing inside the loop body absorbs: scrape_page's
\* outer handler is "except Exception" (314), so a BaseException raised by
\* driver.get or the parse, or an error raised by the handler's own print
\* (315), leaves scrape_page; so does anything raised by the loop statements
\* of main themselves (351-366).  The category loop has no handler of its
\* own: control goes straight to the finally clause (368).
RaisePcs == {"next_page", "nav", "read", "fetched", "page_delay", "cat_end"}

LoopRaises ==
    /\ pc \in RaisePcs
    /\ raising' = TRUE
    /\ pc' = "finally"
    /\ UNCHANGED <<session, created, quits, strayUse, cat, pages_to_scrape, page,
                   retry_count, navCount, outcome, products, catLog,
                   category_products, all_products, mainResult, rawWritten, rawFile,
                   cleanStarted, cleanedWritten, cleanedRows, loadInvoked,
                   exitStatus, cleanVars, auxVars, fnVars>>

\* lines 368-371: finally: driver.quit(); then either the exception goes on
\* to the caller or main continues at 373.
Finally ==
    /\ pc = "finally"
    /\ IF QuitsSession(raising)
       THEN session' = "quit" /\ quits' = quits + 1
       ELSE UNCHANGED <<session, quits>>
    /\ mainResult' = IF raising THEN "raised" ELSE mainResult
    /\ pc' = AfterFinally(raising)
    /\ UNCHANGED <<created, strayUse, cat, pages_to_scrape, page, retry_count,
                   navCount, outcome, products, catLog, category_products,
                   all_products, raising, rawWritten, rawFile, cleanStarted,
                   cleanedWritten, cleanedRows, loadInvoked, exitStatus, cleanVars,
                   auxVars, fnVars>>

\* lines 373-383: DataFrame(all_products).to_csv('data/raw.csv'); return df
WriteRaw ==
    /\ pc = "write_raw"
    /\ rawWritten' = TRUE
    /\ rawFile' = all_products
    /\ mainResult' = "returned"
    /\ pc' = "step1_check"
    /\ rawExists' = TRUE
    /\ UNCHANGED <<session, created, quits, strayUse, cat, pages_to_scrape, page,
                   retry_count, navCount, outcome, products, catLog,
                   category_products, all_products, raising, cleanStarted,
                   cleanedWritten, cleanedRows, loadInvoked, exitStatus, cleanVars,
                   max_pages, cleanedExists, waits, settled, pageBlocks, fnVars>>

\* ------------------------------------------------------- main_pipeline.py
\* lines 35-43: an empty scrape ends the run with sys.exit(1) (SystemExit is
\* not an Exception, so the except at 45 does not catch it).
Step1Check ==
    /\ pc = "step1_check"
    /\ IF ScrapeIsEmpty(Len(rawFile))
       THEN pc' = "exited" /\ exitStatus' = "1"
       ELSE pc' = "step2" /\ UNCHANGED exitStatus
    /\ UNCHANGED <<session, created, quits, strayUse, cat, pages_to_scrape, page,
                   retry_count, navCount, outcome, products, catLog,
                   category_products, all_products, raising, mainResult, rawWritten,
                   rawFile, cleanStarted, cleanedWritten, cleanedRows, loadInvoked,
                   cleanVars, auxVars, fnVars>>

\* lines 45-49: scrape_main raised.
Step1Except ==
    /\ pc = "step1_except"
    /\ pc' = AfterScrapeError
    /\ exitStatus' = IF AfterScrapeError = "exited" THEN "1" ELSE exitStatus
    /\ UNCHANGED <<session, created, quits, strayUse, cat, pages_to_scrape, page,
                   retry_count, navCount, outcome, products, catLog,
                   category_products, all_products, raising, mainResult, rawWritten,
                   rawFile, cleanStarted, cleanedWritten, cleanedRows, loadInvoked,
                   cleanVars, auxVars, fnVars>>

\* The stages hand their data over through files named by path
\* (main_pipeline.py:59 and 104 pass paths, cleaner.py:101 and db_load.py:95
\* look the path up afresh): between two stages the file may have been
\* removed or renamed by anything else on the machine.
RawFileVanishes ==
    /\ pc = "step2"
    /\ rawExists
    /\ rawExists' = FALSE
    /\ UNCHANGED <<pipeVars, cleanVars, max_pages, cleanedExists, waits, settled,
                   pageBlocks, fnVars>>

CleanedFileVanishes ==
    /\ pc = "step3"
    /\ cleanedExists
    /\ cleanedExists' = FALSE
    /\ UNCHANGED <<pipeVars, cleanVars, max_pages, rawExists, waits, settled,
                   pageBlocks, fnVars>>

\* line 59: clean_data('data/raw.csv', 'data/cleaned_products.csv') entered.
Step2CallCleaner ==
    /\ pc = "step2"
    /\ cleanStarted' = TRUE
    /\ pc' = "clean_run"
    /\ UNCHANGED <<session, created, quits, strayUse, cat, pages_to_scrape, page,
                   retry_count, navCount, outcome, products, catLog,
                   category_products, all_products, raising, mainResult, rawWritten,
                   rawFile, cleanedWritten, cleanedRows, loadInvoked, exitStatus,
                   cleanVars, auxVars, fnVars>>

\* clean_data ran to its return (cleaner.py:101-165): the file is written at
\* 158 and the table returned.  Every record the scraper wrote has a name, so
\* no row is dropped.  The table's contents are the subject of SpecClean.
CleanDataReturns ==
    /\ pc = "clean_run"
    /\ rawExists
    /\ cleanedWritten' = TRUE
    /\ cleanedRows' = Len(rawFile)
    /\ pc' = "step2_check"
    /\ cleanedExists' = TRUE
    /\ UNCHANGED <<session, created, quits, strayUse, cat, pages_to_scrape, page,
                   retry_count, navCount, outcome, products, catLog,
                   category_products, all_products, raising, mainResult, rawWritten,
                   rawFile, cleanStarted, loadInvoked, exitStatus, cleanVars,
                   max_pages, rawExists, waits, settled, pageBlocks, fnVars>>

\* clean_data raised before writing (pd.read_csv at 101 failing on the file,
\* a conversion error): main_pipeline's except at 90.
CleanDataRaises ==
    /\ pc = "clean_run"
    /\ pc' = "step2_except"
    /\ UNCHANGED <<session, created, quits, strayUse, cat, pages_to_scrape, page,
                   retry_count, navCount, outcome, products, catLog,
                   category_products, all_products, raising, mainResult, rawWritten,
                   rawFile, cleanStarted, cleanedWritten, cleanedRows, loadInvoked,
                   exitStatus, cleanVars, auxVars, fnVars>>

\* lines 61-88
Step2Check ==
    /\ pc = "step2_check"
    /\ IF cleanedRows = 0
       THEN pc' = "exited" /\ exitStatus' = "1"
       ELSE pc' = "step3" /\ UNCHANGED exitStatus
    /\ UNCHANGED <<session, created, quits, strayUse, cat, pages_to_scrape, page,
                   retry_count, navCount, outcome, products, catLog,
                   category_products, all_products, raising, mainResult, rawWritten,
                   rawFile, cleanStarted, cleanedWritten, cleanedRows, loadInvoked,
                   cleanVars, auxVars, fnVars>>

\* lines 90-94
Step2Except ==
    /\ pc = "step2_except"
    /\ pc' = "exited" /\ exitStatus' = "1"
    /\ UNCHANGED <<session, created, quits, strayUse, cat, pages_to_scrape, page,
                   retry_count, navCount, outcome, products, catLog,
                   category_products, all_products, raising, mainResult, rawWritten,
                   rawFile, cleanStarted, cleanedWritten, cleanedRows, loadInvoked,
                   cleanVars, auxVars, fnVars>>

\* line 104: load_data_to_sql('data/cleaned_products.csv') entered.
Step3CallLoader ==
    /\ pc = "step3"
    /\ loadInvoked' = TRUE
    /\ pc' = "load_run"
    /\ UNCHANGED <<session, created, quits, strayUse, cat, pages_to_scrape, page,
                   retry_count, navCount, outcome, products, catLog,
                   category_products, all_products, raising, mainResult, rawWritten,
                   rawFile, cleanStarted, cleanedWritten, cleanedRows, exitStatus,
                   cleanVars, auxVars, fnVars>>

\* db_load.py:91-188 returned, either past the load or at line 97, where a
\* missing csv_path is reported by a print and a plain return;
\* main_pipeline.py:106-127 print the summary and the script ends with
\* status 0.
LoadReturns ==
    /\ pc = "load_run"
    /\ pc' = "complete" /\ exitStatus' = "0"
    /\ UNCHANGED <<session, created, quits, strayUse, cat, pages_to_scrape, page,
                   retry_count, navCount, outcome, products, catLog,
                   category_products, all_products, raising, mainResult, rawWritten,
                   rawFile, cleanStarted, cleanedWritten, cleanedRows, loadInvoked,
                   cleanVars, auxVars, fnVars>>

\* db_load.py:45 re-raises when both connection strings fail (reached only
\* past the file test at 95); main_pipeline.py:108-112.
LoadRaises ==
    /\ pc = "load_run"
    /\ cleanedExists
    /\ pc' = "exited" /\ exitStatus' = "1"
    /\ UNCHANGED <<session, created, quits, strayUse, cat, pages_to_scrape, page,
                   retry_count, navCount, outcome, products, catLog,
                   category_products, all_products, raising, mainResult, rawWritten,
                   rawFile, cleanStarted, cleanedWritten, cleanedRows, loadInvoked,
                   cleanVars, auxVars, fnVars>>

Next ==
    \/ Step1CallScraper \/ GetDriver \/ GetDriverRaises
    \/ NextCategory \/ DiscoverPages \/ DiscoverPagesFails \/ NextPage
    \/ Navigate \/ NavigateRaises
    \/ WaitPricedProduct \/ WaitAnyPrice
    \/ WaitProductBlock \/ WaitProductBlockTimesOut \/ RetryPage
    \/ Settle \/ ReadPage \/ ReadPageRaises
    \/ PageFetched \/ InterPageDelay \/ CategoryDone
    \/ LoopRaises \/ Finally \/ WriteRaw
    \/ Step1Check \/ Step1Except
    \/ RawFileVanishes \/ CleanedFileVanishes
    \/ Step2CallCleaner \/ CleanDataReturns \/ CleanDataRaises
    \/ Step2Check \/ Step2Except
    \/ Step3CallLoader \/ LoadReturns \/ LoadRaises

Spec == Init /\ [][Next]_vars

\* ======================================================== claims under Spec

\* C1: a scrape_page call in which no wait ever succeeds navigates at most
\* MAX_RETRIES_PER_PAGE times after the first attempt, and when the ceiling is
\* used up it returns the empty list to the category loop without raising.
C1_RetryCeiling ==
    /\ retry_count <= MAX_RETRIES_PER_PAGE
    /\ navCount <= MAX_RETRIES_PER_PAGE + 1
    /\ (pc = "fetched" /\ outcome = "degraded") =>
          /\ products = << >>
          /\ retry_count = MAX_RETRIES_PER_PAGE
          /\ navCount = MAX_RETRIES_PER_PAGE + 1
          /\ ~raising

C1_Witness ==
    pc = "fetched" /\ outcome = "degraded" /\ navCount = MAX_RETRIES_PER_PAGE + 1

EarlyStopAt(i) == catLog[i][1] > 1 /\ catLog[i][2] = << >>
PagesBefore(i) == Flatten([j \in 1..(i - 1) |-> catLog[j][2]])

\* C2: once a page beyond page 1 of a category has returned no records, no
\* further page of that category is fetched, and the category's result is the
\* concatenation of the records of the pages fetched before it.
C2_EarlyStop ==
    \A i \in 1..Len(catLog) :
        EarlyStopAt(i) =>
            /\ i = Len(catLog)
            /\ page = catLog[i][1]
            /\ pc \notin FetchPcs
            /\ category_products = PagesBefore(i)

C2_Witness ==
    /\ pc = "cat_end"
    /\ pages_to_scrape = PAGES_PER_CATEGORY
    /\ Len(catLog) = 3
    /\ EarlyStopAt(3)
    /\ catLog[1][2] # << >>
    /\ category_products = catLog[1][2] \o catLog[2][2]

\* C3: one session is created before the first category; every driver call
\* happens while it is live; when main ends, by return or by an exception
\* out of the category loop, the session has been quit exactly once.
C3_SessionLifecycle ==
    /\ created <= 1 /\ quits <= 1
    /\ ~strayUse
    /\ pc \in LoopPcs => (session = "live" /\ created = 1 /\ quits = 0)
    /\ (mainResult # "none" /\ created = 1) => (session = "quit" /\ quits = 1)

C3_Witness ==
    mainResult = "raised" /\ created = 1 /\ quits = 1 /\ cat = 1

\* C4: when the processing of a category fails with an exception, the
\* remaining categories are still crawled and main still returns.
C4_FailureSkipsOnlyThatCategory ==
    (raising /\ mainResult # "none") =>
        (cat = NumCategories /\ mainResult = "returned")

\* C10: cleaning starts only after the scrape has completed (all categories,
\* session quit, raw file written, main returned); loading starts only after
\* clean_data has written its file; no earlier phase runs after a later one
\* has started.
C10_PhaseOrder ==
    /\ cleanStarted =>
          /\ mainResult = "returned" /\ rawWritten /\ session = "quit"
          /\ cat = NumCategories
          /\ pc \notin ScrapePcs
    /\ loadInvoked =>
          /\ cleanStarted /\ cleanedWritten
          /\ pc \notin (ScrapePcs \cup CleanPcs)
    /\ pc \in ScrapePcs => (~cleanStarted /\ ~loadInvoked)
    /\ pc \in CleanPcs => ~loadInvoked

C10_Witness == pc = "load_run" /\ loadInvoked /\ cleanedWritten /\ rawWritten

\* C11: a stage whose input file is absent when it starts (raw.csv for
\* cleaning, cleaned_products.csv for loading) does not complete normally,
\* and the process ends with a non-zero status.
C11_MissingInputIsFatal ==
    /\ (cleanStarted /\ ~rawExists) =>
          (~cleanedWritten /\ exitStatus \in {"running", "1"})
    /\ (loadInvoked /\ ~cleanedExists) =>
          (pc # "complete" /\ exitStatus \in {"running", "1"})

PageLoopPcs == LoopPcs \ {"next_cat", "get_max_pages"}

\* C12: within a category the pages fetched are 1, 2, ..., k in ascending
\* consecutive order, one at a time, with k at most pages_to_scrape =
\* min(requested pages, discovered page count); never more than
\* min(requested pages, 50) pages of a category are fetched.
C12_PagesInOrder ==
    /\ \A i \in 1..Len(catLog) : catLog[i][1] = i
    /\ pc \in PageLoopPcs =>
          /\ pages_to_scrape = Min(pages_per_category, max_pages)
          /\ page \in {Len(catLog), Len(catLog) + 1}
          /\ pc \in FetchPcs => page = Len(catLog) + 1
          /\ page <= pages_to_scrape
          /\ page <= Min(pages_per_category, PageCap)

C12_Witness ==
    /\ pc = "cat_end" /\ max_pages = 2 /\ pages_to_scrape = 2
    /\ Len(catLog) = 2 /\ catLog[2][1] = 2 /\ catLog[2][2] # << >>

\* C13: whatever pagination markup the first page shows, and on every
\* failure path, get_max_pages returns at most 50.
C13_DiscoveryCapped ==
    pc \in PageLoopPcs => (max_pages >= 1 /\ max_pages <= PageCap)

C13_Witness == pc = "next_page" /\ max_pages = PageCap /\ pages_to_scrape = 5

AllPages == Flatten([j \in 1..Len(catLog) |-> catLog[j][2]])

\* C14: page 1 of a category returning no records does not end the category:
\* when pages_to_scrape is at least 2, page 2 is still fetched, and the
\* records of the later pages are part of the category's result.
C14_EmptyFirstPageGoesOn ==
    (pc = "cat_end" /\ Len(catLog) >= 1 /\ catLog[1][2] = << >>) =>
        /\ pages_to_scrape >= 2 => Len(catLog) >= 2
        /\ category_products = AllPages

C14_Witness ==
    /\ pc = "cat_end" /\ Len(catLog) = 3
    /\ catLog[1][2] = << >> /\ catLog[2][2] # << >> /\ catLog[3][2] = << >>
    /\ category_products = catLog[2][2]

NamedBlocks == {i \in 1..Len(pageBlocks) : pageBlocks[i] = "ok"}

\* C19: when scrape_page returns the records of a page it has read, every
\* block with a name has given exactly one record, the records are in page
\* order, and neither a block whose extraction raised nor a block without a
\* name has given one: a raising block costs that block only.
C19_BlockErrorSkipsOnlyThatBlock ==
    (pc = "fetched" /\ outcome = "records") =>
        /\ Len(products) = Cardinality(NamedBlocks)
        /\ \A j \in 1..Len(products) :
              /\ products[j].block \in NamedBlocks
              /\ products[j].page = page /\ products[j].Category = cat
              /\ j < Len(products) => products[j].block < products[j + 1].block

C19_Witness ==
    /\ pc = "fetched" /\ outcome = "records"
    /\ pageBlocks = <<"ok", "raises", "ok">>
    /\ Len(products) = 2 /\ products[1].block = 1 /\ products[2].block = 3

WaitOrder == <<"a", "b", "c">>

C22_DelayBetweenPages ==
    [][ /\ (pc' = "next_page" /\ pc # "next_page") =>
              \/ pc = "get_max_pages" /\ page' = 0
              \/ pc = "page_delay"
              \/ pc = "fetched" /\ page' = pages_to_scrape'
        /\ (pc = "next_page" /\ pc' = "nav") =>
              (page' = page + 1 /\ Len(catLog) = page) ]_vars

C22_Witness ==
    /\ pc = "nav" /\ page = 2 /\ pages_to_scrape >= 3
    /\ Len(catLog) = 1 /\ catLog[1][2] # << >>

\* A measure of the work the crawl has left, in steps: the position inside
\* the current attempt, the retries the page has left, the pages the
\* category has left, the categories left, the steps after the loop.
AttemptSteps == Cardinality(FetchPcs) + 1
PageSteps == 3 + (MAX_RETRIES_PER_PAGE + 1) * AttemptSteps
CategorySteps == 3 + (pages_per_category + 1) * PageSteps
TailSteps == Cardinality(ScrapePcs \ LoopPcs) - 1

InAttempt ==
    CASE pc = "nav" -> 6 [] pc = "wait_a" -> 5 [] pc = "wait_b" -> 4
      [] pc = "wait_c" -> 3 [] pc = "settle" -> 2 [] pc = "read" -> 1
      [] pc = "retry_sleep" -> 0

InPage ==
    CASE pc \in FetchPcs ->
             3 + (MAX_RETRIES_PER_PAGE - retry_count) * AttemptSteps + InAttempt
      [] pc = "fetched" -> 2
      [] pc = "page_delay" -> 1
      [] pc = "next_page" -> 0

InCategory ==
    CASE pc = "get_max_pages" -> CategorySteps - 1
      [] pc \in PageLoopPcs \ {"cat_end"} ->
             2 + (pages_to_scrape - page) * PageSteps + InPage
      [] pc = "cat_end" -> 1
      [] pc = "next_cat" -> 0

CrawlRank ==
    CASE pc = "step1" -> TailSteps + (NumCategories + 1) * CategorySteps + 2
      [] pc = "get_driver" -> TailSteps + (NumCategories + 1) * CategorySteps + 1
      [] pc \in LoopPcs ->
             TailSteps + (NumCategories - cat) * CategorySteps + InCategory
      [] pc = "finally" -> 4
      [] pc = "write_raw" -> 3
      [] pc \in {"step1_check", "step1_except"} -> 2
      [] OTHER -> 0

\* C23: the crawl terminates whatever the site does: every step of the scrape
\* stage (a wait ending either way, a retry, a page, a category) lowers a
\* measure that is never negative, so no behaviour stays in scrape_page or
\* in the crawl for ever.
C23_CrawlTerminates ==
    [][ (pc \in ScrapePcs) => (CrawlRank' < CrawlRank /\ CrawlRank' >= 0) ]_vars

C23_Witness ==
    /\ pc = "write_raw" /\ cat = NumCategories
    /\ Len(all_products) >= 2 /\ all_products[1].page = 2

\* C24: the retry budget belongs to the fetch: a fetch issued by the
\* category loop starts with retry_count 0 whatever earlier pages used up,
\* each retry adds 1 and one navigation, so the navigations of a fetch number
\* retry_count + 1 and never more than MAX_RETRIES_PER_PAGE + 1.
C24_RetryBudgetPerFetch ==
    /\ pc \in FetchPcs =>
          navCount = retry_count + (IF pc = "nav" THEN 0 ELSE 1)
    /\ pc = "fetched" => navCount = retry_count + 1
    /\ pc \in FetchPcs \cup {"fetched"} => navCount <= MAX_RETRIES_PER_PAGE + 1

C24_Witness ==
    /\ pc = "fetched" /\ page = 2 /\ outcome = "degraded"
    /\ retry_count = MAX_RETRIES_PER_PAGE /\ navCount = MAX_RETRIES_PER_PAGE + 1
    /\ catLog[1][2] = << >>

\* C25: a navigation that raises ends the fetch at once: there is no retry
\* even with retry_count below the ceiling, the fetch returns the empty list
\* to the category loop, and no exception propagates.
C25_NavigationFailureNotRetried ==
    outcome = "nav_error" =>
        /\ pc \notin FetchPcs
        /\ pc = "fetched" =>
              (products = << >> /\ ~raising /\ navCount = retry_count + 1)

C25_Witness ==
    /\ pc = "fetched" /\ outcome = "nav_error"
    /\ retry_count = 1 /\ navCount = 2 /\ products = << >>

\* C26: data/raw.csv is written only after the session has been quit and
\* only when no exception left the category loop; when one does, the session
\* is quit, nothing is written, and the records of the categories already
\* crawled are lost with main's frame.
C26_RawWrittenOnlyAfterCleanLoop ==
    /\ rawWritten => (session = "quit" /\ quits = 1 /\ ~raising
                      /\ mainResult = "returned" /\ rawFile = all_products)
    /\ pc = "write_raw" => (session = "quit" /\ ~raising)
    /\ mainResult = "raised" =>
          (~rawWritten /\ rawFile = << >>
           /\ (created = 1 => session = "quit"))

C26_Witness ==
    /\ mainResult = "raised" /\ raising /\ session = "quit"
    /\ cat = 2 /\ all_products # << >> /\ ~rawWritten

\* C27: when the scrape returns without a single record, the pipeline ends
\* with status 1 and neither clean_data nor load_data_to_sql is entered.
C27_EmptyScrapeStopsPipeline ==
    (mainResult = "returned" /\ rawFile = << >> /\ pc # "step1_check") =>
        (pc = "exited" /\ exitStatus = "1" /\ ~cleanStarted /\ ~loadInvoked
         /\ ~cleanedWritten)

C27_Witness ==
    /\ pc = "exited" /\ exitStatus = "1"
    /\ mainResult = "returned" /\ rawWritten /\ rawFile = << >>
    /\ cat = NumCategories /\ ~cleanStarted

\* =========================================================== cleaner.py
\* Numbers.  A decimal x is the integer x * Unit; Unit is chosen so that the
\* raw values (thousandths) and every median the code takes of them, of the
\* imputed column and of the rounded column are whole numbers of units.
Unit == 4 * 1000
Milli(m) == m * (Unit \div 1000)
Hundredth == Unit \div 100

\* NaN / None in a numeric column.
NULL == 0 - 1

\* Cells as pd.read_csv delivers them: NaN for an empty field, a number, or
\* text (a tuple of characters).
NaN == [k |-> "nan"]
Num(v) == [k |-> "num", v |-> v]
Str(s) == [k |-> "str", s |-> s]

Digits == {"0", "1", "2", "3", "4", "5", "6", "7", "8", "9"}
DigitVal(c) == CASE c = "0" -> 0 [] c = "1" -> 1 [] c = "2" -> 2 [] c = "3" -> 3
                 [] c = "4" -> 4 [] c = "5" -> 5 [] c = "6" -> 6 [] c = "7" -> 7
                 [] c = "8" -> 8 [] c = "9" -> 9

RECURSIVE IntOf(_)
\* int("...") of a digit string
IntOf(ds) == IF ds = << >> THEN 0
             ELSE 10 * IntOf(SubSeq(ds, 1, Len(ds) - 1)) + DigitVal(ds[Len(ds)])

RECURSIVE FracOf(_, _)
\* the value, in units, of the digits after the decimal point
FracOf(ds, scale) == IF ds = << >> THEN 0
                     ELSE DigitVal(Head(ds)) * (scale \div 10)
                          + FracOf(Tail(ds), scale \div 10)

\* Characters are one-character strings; the invisible ones have names:
\*   "NBSP" U+00A0, "THIN" U+2009   spaces that str.strip() strips too
\*   "ZWSP" U+200B                  zero-width, not whitespace
\*   "NUL"  U+0000                  control character, not whitespace
\*   "TAB"  U+0009                  control character that is whitespace
Whitespace == {" ", "NBSP", "THIN", "TAB"}
IsSpace(c) == c \in Whitespace

RECURSIVE LStrip(_)
LStrip(t) == IF t # << >> /\ IsSpace(Head(t)) THEN LStrip(Tail(t)) ELSE t
RECURSIVE RStrip(_)
RStrip(t) == IF t # << >> /\ IsSpace(t[Len(t)])
             THEN RStrip(SubSeq(t, 1, Len(t) - 1)) ELSE t
\* str.strip()
Strip(t) == RStrip(LStrip(t))

DotsIn(t) == Cardinality({i \in 1..Len(t) : t[i] = "."})
FirstDot(t) == CHOOSE i \in 1..Len(t) : t[i] = "." /\ \A j \in 1..(i - 1) : t[j] # "."

\* float(t) for t made of digits and dots: NULL stands for the ValueError
\* float raises on "", ".", or more than one dot.
FloatOfDigits(t) ==
    IF \E i \in 1..Len(t) : t[i] \notin Digits \cup {"."} THEN NULL
    ELSE IF DotsIn(t) > 1 \/ DotsIn(t) = Len(t) THEN NULL
    ELSE IF DotsIn(t) = 0 THEN IntOf(t) * Unit
    ELSE IntOf(SubSeq(t, 1, FirstDot(t) - 1)) * Unit
         + FracOf(SubSeq(t, FirstDot(t) + 1, Len(t)), Unit)

\* lines 11-23
clean_price(c) ==
    IF c.k = "nan" THEN NULL
    ELSE IF c.k = "num" THEN c.v
    ELSE FloatOfDigits(SelectSeq(Strip(c.s), LAMBDA ch : ch \in Digits \cup {"."}))

\* lines 25-34: text goes through float(rating); a failure gives 0.0
clean_rating(c) ==
    IF c.k = "nan" THEN 0
    ELSE IF c.k = "num" THEN c.v
    ELSE IF FloatOfDigits(Strip(c.s)) = NULL THEN 0
    ELSE FloatOfDigits(Strip(c.s))

\* re.search(r'(\d+)', t): the first maximal run of digits, << >> if none
RECURSIVE DigitRun(_)
DigitRun(t) == IF t = << >> \/ Head(t) \notin Digits THEN << >>
               ELSE <<Head(t)>> \o DigitRun(Tail(t))
RECURSIVE FirstDigits(_)
FirstDigits(t) == IF t = << >> THEN << >>
                  ELSE IF Head(t) \in Digits THEN DigitRun(t)
                  ELSE FirstDigits(Tail(t))

\* lines 36-49 (a count, not scaled by Unit)
clean_review_count(c) ==
    IF c.k = "nan" THEN 0
    ELSE IF c.k = "num" THEN c.v
    ELSE IntOf(FirstDigits(c.s))

\* Series.astype(str) (pandas < 3): NaN becomes the text 'nan'.
AsTypeStr(c) == IF c.k = "nan" THEN <<"n", "a", "n">> ELSE c.s

\* lines 107-123: the column cleaning of clean_data, one row
CleanRow(r, i) ==
    [idx |-> i,
     Category |-> Strip(AsTypeStr(r.Category)),
     ProductName |-> Strip(AsTypeStr(r.ProductName)),
     Price |-> clean_price(r.Price),
     Rating |-> clean_rating(r.Rating),
     ReviewCount |-> clean_review_count(r.ReviewCount)]

\* line 126: df[df['ProductName'].notna() & (df['ProductName'] != '')];
\* after astype(str) no cell is NaN any more.
KeepsRow_DropsNothing(r) == TRUE
KeepsRow(r) == r.ProductName # << >>

\* lines 101-126
LoadedTable(rawTable) ==
    SelectSeq([i \in 1..Len(rawTable) |-> CleanRow(rawTable[i], i)], KeepsRow)

\* --------------------------------------------- Series.median, Series.round
RECURSIVE Insert(_, _)
Insert(x, t) == IF t = << >> THEN <<x>>
                ELSE IF x <= Head(t) THEN <<x>> \o t
                ELSE <<Head(t)>> \o Insert(x, Tail(t))
RECURSIVE Sort(_)
Sort(t) == IF t = << >> THEN << >> ELSE Insert(Head(t), Sort(Tail(t)))

\* Series.median(): NaN skipped; NaN (NULL) for no values; the mean of the
\* two middle values for an even count.
Median(vals) ==
    LET t == Sort(SelectSeq(vals, LAMBDA v : v # NULL))
        n == Len(t)
    IN  IF n = 0 THEN NULL
        ELSE IF n % 2 = 1 THEN t[(n + 1) \div 2]
        ELSE (t[n \div 2] + t[n \div 2 + 1]) \div 2

\* The integer nearest to num / den, ties to the even one (numpy's rint, on
\* which Series.round rests).
RoundHalfEven(num, den) ==
    LET q == num \div den
        r == num % den
    IN  IF 2 * r < den THEN q
        ELSE IF 2 * r > den THEN q + 1
        ELSE IF q % 2 = 0 THEN q ELSE q + 1

\* Series.round(2) of a value in units
Round2(v) == IF v = NULL THEN NULL ELSE RoundHalfEven(v, Hundredth) * Hundredth

\* Series.round(2) of the quotient num / den held by PricePerReview
RoundQuot2(num, den) ==
    IF num = NULL THEN NULL ELSE RoundHalfEven(num, den * Hundredth) * Hundredth

\* ------------------------------------- cleaner.py: create_derived_features
Column(tbl, f) == [i \in 1..Len(tbl) |-> tbl[i][f]]
CategoryPrices(tbl, c) ==
    Column(SelectSeq(tbl, LAMBDA r : r.Category = c), "Price")

\* lines 55-59: fillna(0) on ReviewCount and Rating
FillCounts(tbl) ==
    [i \in 1..Len(tbl) |->
        [tbl[i] EXCEPT !.ReviewCount = IF @ = NULL THEN 0 ELSE @,
                       !.Rating = IF @ = NULL THEN 0 ELSE @]]

\* lines 63-65: per category, fill with the category median when it exists
FillByCategory_Skipped(tbl) == tbl
FillByCategory(tbl) ==
    [i \in 1..Len(tbl) |->
        LET m == Median(CategoryPrices(tbl, tbl[i].Category))
        IN  [tbl[i] EXCEPT !.Price = IF @ = NULL /\ m # NULL THEN m ELSE @]]

\* lines 67-69: the dataset median, 0.0 when there is none
OverallMedian_NoFallback(tbl) == Median(Column(tbl, "Price"))
OverallMedian(tbl) ==
    IF Median(Column(tbl, "Price")) = NULL THEN 0 ELSE Median(Column(tbl, "Price"))

\* line 70
FillOverall_Skipped(tbl) == tbl
FillOverall(tbl) ==
    [i \in 1..Len(tbl) |->
        [tbl[i] EXCEPT !.Price = IF @ = NULL THEN OverallMedian(tbl) ELSE @]]

\* lines 73-85: calculate_is_high_value against the medians of the imputed
\* column (every category of the table is a key of category_medians)
RatingThreshold == (45 * Unit) \div 10
calculate_is_high_value(tbl, r) ==
    LET category_median == Median(CategoryPrices(tbl, r.Category))
        cm == IF category_median = NULL THEN r.Price ELSE category_median
    IN  IF r.Rating = NULL \/ r.Price = NULL THEN 0
        ELSE IF r.Rating >= RatingThreshold /\ r.Price < cm THEN 1 ELSE 0

\* lines 87-93: the two derived columns; PricePerReview is the unrounded
\* quotient Price / max(ReviewCount, 1), held as numerator and denominator
AddDerived(tbl) ==
    [i \in 1..Len(tbl) |->
        [idx |-> tbl[i].idx,
         Category |-> tbl[i].Category,
         ProductName |-> tbl[i].ProductName,
         Price |-> tbl[i].Price,
         Rating |-> tbl[i].Rating,
         ReviewCount |-> tbl[i].ReviewCount,
         IsHighValue |-> calculate_is_high_value(tbl, tbl[i]),
         PricePerReview |-> [num |-> tbl[i].Price,
                             den |-> Max(tbl[i].ReviewCount, 1)]]]

\* lines 51-95
create_derived_features(tbl) ==
    AddDerived(FillOverall(FillByCategory(FillCounts(tbl))))

\* lines 142-147: Price, PricePerReview and Rating rounded to 2 decimals
RoundTable(tbl) ==
    [i \in 1..Len(tbl) |->
        [tbl[i] EXCEPT !.Price = Round2(@),
                       !.Rating = Round2(@),
                       !.PricePerReview = RoundQuot2(@.num, @.den)]]

\* lines 150-153: the four assertions
ValidationPasses(tbl) ==
    \A i \in 1..Len(tbl) :
        /\ tbl[i].Price # NULL
        /\ tbl[i].PricePerReview # NULL
        /\ tbl[i].ReviewCount # NULL
        /\ tbl[i].Rating # NULL

\* ------------------------------------------------ cleaner.py: clean_data
\* lines 99-126: read the raw file, clean the columns, drop nameless rows
LoadAndClean ==
    /\ cpc = "start"
    /\ df' = LoadedTable(raw)
    /\ cpc' = "derive"
    /\ UNCHANGED <<raw, out, pipeVars, auxVars, fnVars>>

\* lines 128-130
Derive ==
    /\ cpc = "derive"
    /\ df' = create_derived_features(df)
    /\ cpc' = "finish"
    /\ UNCHANGED <<raw, out, pipeVars, auxVars, fnVars>>

\* lines 132-153: casts, rounding, then the assertions; a failed assertion
\* leaves clean_data before anything is written
RoundAndValidate ==
    /\ cpc = "finish"
    /\ df' = RoundTable(df)
    /\ cpc' = IF ValidationPasses(RoundTable(df)) THEN "write" ELSE "raised"
    /\ UNCHANGED <<raw, out, pipeVars, auxVars, fnVars>>

\* lines 155-165: to_csv(output_path), return df
WriteCleaned ==
    /\ cpc = "write"
    /\ out' = df
    /\ cpc' = "done"
    /\ UNCHANGED <<raw, df, pipeVars, auxVars, fnVars>>

NextClean == LoadAndClean \/ Derive \/ RoundAndValidate \/ WriteCleaned

\* The pipeline's variables while clean_data alone is studied.
PipeAside ==
    /\ pc = "clean_data"
    /\ session = "none" /\ created = 0 /\ quits = 0 /\ strayUse = FALSE
    /\ cat = 0 /\ pages_to_scrape = 0 /\ page = 0
    /\ retry_count = 0 /\ navCount = 0 /\ outcome = "none"
    /\ products = << >> /\ catLog = << >>
    /\ category_products = << >> /\ all_products = << >>
    /\ raising = FALSE /\ mainResult = "none"
    /\ rawWritten = FALSE /\ rawFile = << >>
    /\ cleanStarted = TRUE /\ cleanedWritten = FALSE /\ cleanedRows = 0
    /\ loadInvoked = FALSE /\ exitStatus = "running"
    /\ AuxIdle /\ FnIdle

TablesOver(rows) == UNION {[1..n -> rows] : n \in 0..MaxRows}

\* Raw rows whose numeric cells vary: prices 1.012 and 2.000, ratings 4.496
\* and 4.800, review counts 2 and 1000, each possibly missing; two categories.
NumericRows ==
    [Category : {Str(<<"T">>), Str(<<"D">>)},
     ProductName : {Str(<<"a">>)},
     Price : {NaN, Num(Milli(1012)), Num(Milli(2000))},
     Rating : {NaN, Num(Milli(4496)), Num(Milli(4800))},
     ReviewCount : {NaN, Num(2), Num(1000)}]

\* Raw rows whose text cells vary: names missing, blank, padded or plain;
\* padded categories; prices as text.
NameRows ==
    [Category : {Str(<<"T">>), Str(<<" ", "T">>)},
     ProductName : {NaN, Str(<<" ", " ">>), Str(<<" ", "a">>), Str(<<"a">>)},
     Price : {NaN, Str(<<"U", "S", "$", "2", ".", "5">>), Str(<<"F", "r", "e", "e">>)},
     Rating : {Str(<<"4", ".", "8">>)},
     ReviewCount : {Str(<<"3", " ", "r">>)}]

InitClean ==
    /\ PipeAside
    /\ raw \in TablesOver(NumericRows)
    /\ df = << >> /\ cpc = "start" /\ out = << >>

\* Raw rows of three categories for the price imputation: T priced 1.000 or
\* 3.000 or unpriced, U priced 2.000 or unpriced, D never priced.
ImputeRows ==
    { [Category |-> Str(<<c[1]>>), ProductName |-> Str(<<"a">>), Price |-> c[2],
       Rating |-> Num(Milli(4800)), ReviewCount |-> Num(2)] :
      c \in {<<"T", NaN>>, <<"T", Num(Milli(1000))>>, <<"T", Num(Milli(3000))>>,
             <<"U", NaN>>, <<"U", Num(Milli(2000))>>, <<"D", NaN>>} }

TablesUpTo(rows, n) == UNION {[1..k -> rows] : k \in 0..n}

InitImpute ==
    /\ PipeAside
    /\ raw \in TablesUpTo(ImputeRows, MaxImputeRows)
    /\ df = << >> /\ cpc = "start" /\ out = << >>

InitNames ==
    /\ PipeAside
    /\ raw \in TablesOver(NameRows)
    /\ df = << >> /\ cpc = "start" /\ out = << >>

SpecClean == InitClean /\ [][NextClean]_vars
SpecNames == InitNames /\ [][NextClean]_vars
SpecImpute == InitImpute /\ [][NextClean]_vars

\* ================================================= claims under SpecClean

\* C5: from the derivation on (the table handed to the assertions, the table
\* written and returned) no row has a null Price, Rating, ReviewCount or
\* PricePerReview, whatever cells were missing in the raw table; hence the
\* assertions never fail.
C5_NoNulls ==
    /\ cpc \in {"finish", "write", "done"} => \A i \in 1..Len(df) :
          /\ df[i].Price # NULL
          /\ df[i].Rating # NULL
          /\ df[i].ReviewCount # NULL
          /\ (IF cpc = "finish" THEN df[i].PricePerReview.num
                                ELSE df[i].PricePerReview) # NULL
    /\ cpc # "raised"

C5_Witness ==
    /\ cpc = "done"
    /\ \E i \in 1..Len(out) :
          /\ raw[out[i].idx].Price = NaN
          /\ raw[out[i].idx].Rating = NaN
          /\ raw[out[i].idx].ReviewCount = NaN
    /\ \A i \in 1..Len(raw) : raw[i].Price = NaN

FinalCategoryMedian(c) == Median(CategoryPrices(out, c))

\* C6: in the table written, IsHighValue = 1 exactly for the rows whose
\* Rating (as written) is at least 4.5 and whose Price (as written) is below
\* the median of the written Price of their category.
C6_HighValueOnFinalTable ==
    cpc = "done" => \A i \in 1..Len(out) :
        (out[i].IsHighValue = 1) <=>
            (out[i].Rating >= RatingThreshold
             /\ out[i].Price < FinalCategoryMedian(out[i].Category))

\* C7: in the table written, PricePerReview = round(Price / max(ReviewCount,
\* 1), 2) with the Price and ReviewCount written in the same row.
C7_PricePerReviewOnFinalTable ==
    cpc = "done" => \A i \in 1..Len(out) :
        out[i].PricePerReview =
            RoundQuot2(out[i].Price, Max(out[i].ReviewCount, 1))

\* C17 (as stated): every row of the table written has a PricePerReview
\* strictly greater than 0, rows with an imputed price included.
C17_PricePerReviewPositive ==
    cpc = "done" => \A i \in 1..Len(out) : out[i].PricePerReview > 0

\* C17 (amended): PricePerReview is never negative, before and after the
\* rounding; in the table written it is 0.00 exactly for the rows whose
\* quotient Price / max(ReviewCount, 1), taken on the imputed price before
\* rounding, is at most 0.005: the rows priced 0.0 because the dataset has no
\* price at all, and the rows whose price is small against their reviews.
C17_PricePerReviewNotNegative ==
    /\ cpc = "finish" => \A i \in 1..Len(df) : df[i].PricePerReview.num >= 0
    /\ cpc = "done" => \A i \in 1..Len(out) :
          LET q == create_derived_features(LoadedTable(raw))[i].PricePerReview
          IN  /\ out[i].PricePerReview >= 0
              /\ (out[i].PricePerReview = 0) <=> (200 * q.num <= Unit * q.den)

C17_Witness ==
    /\ cpc = "done" /\ Len(out) = 2
    /\ raw[1].Price = NaN /\ raw[2].Price = NaN
    /\ out[1].Price = 0 /\ out[1].PricePerReview = 0

\* ================================================= claims under SpecNames

BlankName(c) == c.k = "nan" \/ Strip(c.s) = << >>

\* C8: no raw record whose ProductName is missing, empty or blank is a row
\* of the table written.
C8_NamelessRowsDropped ==
    cpc = "done" => \A i \in 1..Len(out) : ~BlankName(raw[out[i].idx].ProductName)

NamedRawRows == {i \in 1..Len(raw) : ~BlankName(raw[i].ProductName)}

\* C21: the table written holds exactly the raw rows whose ProductName is
\* neither missing nor blank, each once and in the raw order; its row count
\* is the number of such raw rows.
C21_OnlyNamelessRowsRemoved ==
    cpc = "done" =>
        /\ {out[i].idx : i \in 1..Len(out)} = NamedRawRows
        /\ Len(out) = Cardinality(NamedRawRows)
        /\ \A i \in 1..(Len(out) - 1) : out[i].idx < out[i + 1].idx

\* ================================================ claims under SpecImpute

\* The prices as observed: the Price column after the column cleaning,
\* before any fill.
Observed == LoadedTable(raw)
ObservedCategoryMedian(c) == Median(CategoryPrices(Observed, c))
ObservedMedian == Median(Column(Observed, "Price"))

\* The Price column once every category that has an observed price has had
\* its missing prices filled with the median of its observed prices.
AfterCategoryFill ==
    [i \in 1..Len(Observed) |->
        IF Observed[i].Price # NULL THEN Observed[i].Price
        ELSE ObservedCategoryMedian(Observed[i].Category)]

ThreeLevels(i, datasetMedian) ==
    IF Observed[i].Price # NULL THEN Observed[i].Price
    ELSE IF ObservedCategoryMedian(Observed[i].Category) # NULL
         THEN ObservedCategoryMedian(Observed[i].Category)
    ELSE IF datasetMedian # NULL THEN datasetMedian
    ELSE 0

ReplaceSpaces(t) ==
    [i \in 1..Len(t) |-> IF t[i] \in {"NBSP", "THIN"} THEN " " ELSE t[i]]

\* lines 58-61: the zero-width characters are deleted
RemoveZeroWidth(t) == SelectSeq(t, LAMBDA c : c # "ZWSP")

\* line 63: re.sub(r'[\x00-\x1F\x7F-\x9F]', '', text)
RemoveControl(t) == SelectSeq(t, LAMBDA c : c \notin {"NUL", "TAB"})

\* lines 49-64
clean_text_NoFinalStrip(t) ==
    IF t = << >> THEN << >>
    ELSE RemoveControl(RemoveZeroWidth(ReplaceSpaces(Strip(t))))
clean_text(t) ==
    IF t = << >> THEN << >>
    ELSE Strip(RemoveControl(RemoveZeroWidth(ReplaceSpaces(Strip(t)))))

\* re.IGNORECASE on the letters of "reviews"
Lower(c) == CASE c = "R" -> "r" [] c = "E" -> "e" [] c = "V" -> "v"
              [] c = "I" -> "i" [] c = "W" -> "w" [] c = "S" -> "s"
              [] OTHER -> c

StartsWithReview(t) ==
    /\ Len(t) >= 6
    /\ [i \in 1..6 |-> Lower(t[i])] = <<"r", "e", "v", "i", "e", "w">>

RECURSIVE RemoveReviews(_)
\* line 173: re.sub(r'reviews?', '', review_text, flags=re.IGNORECASE)
RemoveReviews(t) ==
    IF t = << >> THEN << >>
    ELSE IF StartsWithReview(t)
         THEN (IF Len(t) >= 7 /\ Lower(t[7]) = "s"
               THEN RemoveReviews(SubSeq(t, 8, Len(t)))
               ELSE RemoveReviews(SubSeq(t, 7, Len(t))))
    ELSE <<Head(t)>> \o RemoveReviews(Tail(t))

\* lines 166-182: the first run of digits of what is left, 0 when none
extract_review_count(t) ==
    IF t = << >> THEN 0
    ELSE IntOf(FirstDigits(Strip(RemoveReviews(clean_text(t)))))

\* The pipeline's variables while a text function alone is studied.
ScraperAside ==
    /\ pc = "scrape_page"
    /\ session = "live" /\ created = 1 /\ quits = 0 /\ strayUse = FALSE
    /\ cat = 1 /\ pages_to_scrape = 1 /\ page = 1
    /\ retry_count = 0 /\ navCount = 1 /\ outcome = "none"
    /\ products = << >> /\ catLog = << >>
    /\ category_products = << >> /\ all_products = << >>
    /\ raising = FALSE /\ mainResult = "none"
    /\ rawWritten = FALSE /\ rawFile = << >>
    /\ cleanStarted = FALSE /\ cleanedWritten = FALSE /\ cleanedRows = 0
    /\ loadInvoked = FALSE /\ exitStatus = "running"
    /\ CleanIdle /\ AuxIdle

TextsOver(alphabet, n) == UNION {[1..k -> alphabet] : k \in 0..n}

\* Element text as get_text() returns it: ordinary characters, spaces,
\* non-breaking and thin spaces, zero-width and control characters.
TextAlphabet == {"a", " ", "NBSP", "THIN", "ZWSP", "NUL", "TAB"}

\* Review texts: digits, separators and spaces, alone or followed by the
\* word; and the text "1,024 reviews".
ReviewWord == <<" ", "r", "e", "v", "i", "e", "w", "s">>
ReviewTexts ==
    {b \o w : b \in TextsOver({"1", "0", ",", " "}, MaxText),
              w \in {<< >>, ReviewWord, <<"R", "e", "v", "i", "e", "w">>}}
    \cup {<<"1", ",", "0", "2", "4">> \o ReviewWord}

InitText ==
    /\ ScraperAside
    /\ text \in TextsOver(TextAlphabet, MaxText)
    /\ result = << >> /\ fpc = "clean_text"

InitReview ==
    /\ ScraperAside
    /\ text \in ReviewTexts
    /\ result = << >> /\ fpc = "extract_review_count"

CleanTextCall ==
    /\ fpc = "clean_text"
    /\ result' = clean_text(text)
    /\ fpc' = "done"
    /\ UNCHANGED <<text, pipeVars, cleanVars, auxVars>>

ExtractReviewCountCall ==
    /\ fpc = "extract_review_count"
    /\ result' = extract_review_count(text)
    /\ fpc' = "done"
    /\ UNCHANGED <<text, pipeVars, cleanVars, auxVars>>

SpecText == InitText /\ [][CleanTextCall]_vars
SpecReview == InitReview /\ [][ExtractReviewCountCall]_vars

\* ================================================ claims under SpecReview

AllDigits(t) == SelectSeq(t, LAMBDA c : c \in Digits)

\* C16: extract_review_count drops the word "review(s)" and every character
\* that is not a digit, thousands separators included, and returns the
\* integer the remaining digits spell ("1,024 reviews" gives 1024); a text
\* without digits gives 0; the result is never null and never negative.
C16_ReviewCountKeepsAllDigits ==
    fpc = "done" => (result = IntOf(AllDigits(text)) /\ result >= 0)

\* ================================================== claims under SpecText

\* C18: clean_text is idempotent: cleaning a cleaned text changes nothing,
\* for texts made of ordinary characters, spaces, non-breaking and thin
\* spaces, zero-width characters and control characters.
C18_CleanTextIdempotent ==
    fpc = "done" => clean_text(result) = result

C18_Witness ==
    /\ fpc = "done"
    /\ text = <<"NBSP", "a", " ", "NUL">>
    /\ result = <<"a">>

====
